---------------------------- MODULE Spec2Model ----------------------------
(***************************************************************************)
(* NutriTrack (CalorieTrackerApp): a React component holding a user        *)
(* profile, a food log, an add-food form, the selected date and two        *)
(* derived values (nutritionGoals, dailySummary) that passive effects      *)
(* recompute after a render commits.                                       *)
(*                                                                         *)
(* Numbers are JavaScript doubles.  The model keeps them as exact          *)
(* rationals scaled to integers; for the integer-valued inputs drawn here  *)
(* every product with 6.25, 0.25 and /4 is exact in binary, and the        *)
(* products with 1.2 .. 1.9, 1.6 .. 2.2, 0.5 and 0.6 carry a relative      *)
(* error below 2^-54, so a product that is an exact tie k + 1/2 or an      *)
(* exact integer is delivered as such and Math.round / the comparisons see *)
(* the exact value.  Math.round(-0.5) is -0, which is the integer 0 here.  *)
(***************************************************************************)
EXTENDS Integers, Sequences, FiniteSets, TLC

(***************************************************************************)
(* Bounds                                                                  *)
(***************************************************************************)
\* largest value of the clock read by Date.now()
MaxTime == 2
\* largest number of entries the log grows to in the model
MaxFoods == 2
\* largest distance, in days, of the selected date from the mount date
MaxShift == 1

(***************************************************************************)
(* Math.round and the energy model                                         *)
(***************************************************************************)
Abs(x) == IF x < 0 THEN -x ELSE x

\* Math.round(n / d) for d > 0: floor(n/d + 1/2), ties go up
MathRound(n, d) == (2 * n + d) \div (2 * d)

\* calculateBMR with Math.floor in place of Math.round
calculateBMR_floor(u) ==
  IF u.gender = "female"
    THEN (4 * 10 * u.weight + 25 * u.height - 4 * 5 * u.age - 4 * 161) \div 4
    ELSE (4 * 10 * u.weight + 25 * u.height - 4 * 5 * u.age + 4 * 5) \div 4

\* calculateBMR, Mifflin-St Jeor; the argument of Math.round is kept in quarters
calculateBMR(u) ==
  IF u.gender = "female"
    THEN MathRound(4 * 10 * u.weight + 25 * u.height - 4 * 5 * u.age - 4 * 161, 4)
    ELSE MathRound(4 * 10 * u.weight + 25 * u.height - 4 * 5 * u.age + 4 * 5, 4)

\* activityMultipliers, in thousandths
activityMultipliers ==
  [sedentary |-> 1200, light |-> 1375, moderate |-> 1550,
   active |-> 1725, veryActive |-> 1900]

\* calculateTDEE with Math.floor in place of Math.round
calculateTDEE_floor(u) ==
  LET bmr == calculateBMR(u)
  IN  (bmr * activityMultipliers[u.activityLevel]) \div 1000

calculateTDEE(u) ==
  LET bmr == calculateBMR(u)
  IN  MathRound(bmr * activityMultipliers[u.activityLevel], 1000)

\* calculateCalorieGoal with the adjustments of lose and gain exchanged
calculateCalorieGoal_swapped(u) ==
  LET tdee == calculateTDEE(u)
      goalAdjustments == [lose |-> tdee + 500, maintain |-> tdee, gain |-> tdee - 500]
  IN  goalAdjustments[u.goal]

calculateCalorieGoal(u) ==
  LET tdee == calculateTDEE(u)
      goalAdjustments == [lose |-> tdee - 500, maintain |-> tdee, gain |-> tdee + 500]
  IN  goalAdjustments[u.goal]

\* the nutrition-goals effect taking the carbohydrate calories from the rounded
\* fat grams (fatGoal * 9) instead of the un-rounded fatCalories
calculateNutritionGoals_roundedFat(u) ==
  LET calorieGoal   == calculateCalorieGoal(u)
      proteinPerKg10 == IF u.goal = "gain" THEN 22 ELSE IF u.goal = "lose" THEN 20 ELSE 16
      proteinGoal   == MathRound(u.weight * proteinPerKg10, 10)
      proteinCalories == proteinGoal * 4
      fatGoal       == MathRound(calorieGoal * 25, 900)
      remaining     == calorieGoal - proteinCalories - fatGoal * 9
      carbGoal      == MathRound(remaining, 4)
  IN  [calories |-> calorieGoal, protein |-> proteinGoal,
       carbs |-> carbGoal, fat |-> fatGoal]

\* body of the nutrition-goals effect: the object handed to setNutritionGoals
calculateNutritionGoals(u) ==
  LET calorieGoal   == calculateCalorieGoal(u)
      proteinPerKg10 == IF u.goal = "gain" THEN 22 ELSE IF u.goal = "lose" THEN 20 ELSE 16
      proteinGoal   == MathRound(u.weight * proteinPerKg10, 10)
      proteinCalories == proteinGoal * 4
      \* fatCalories = calorieGoal * 0.25, kept in hundredths
      fatCalories100 == calorieGoal * 25
      fatGoal       == MathRound(fatCalories100, 900)
      remaining100  == 100 * calorieGoal - 100 * proteinCalories - fatCalories100
      carbGoal      == MathRound(remaining100, 400)
  IN  [calories |-> calorieGoal, protein |-> proteinGoal,
       carbs |-> carbGoal, fat |-> fatGoal]

(***************************************************************************)
(* Daily summary                                                           *)
(***************************************************************************)
\* foods without the date filter
foodsOf_all(log, date) == log

\* const foods = allFoods.filter(food => food.date === currentDate)
foodsOf(log, date) == SelectSeq(log, LAMBDA food : food.date = date)

ZeroSummary == [calories |-> 0, protein |-> 0, carbs |-> 0, fat |-> 0]

\* foods.reduce(..., {0,0,0,0}): left fold in log order
RECURSIVE reduceSummary(_, _)
reduceSummary(fs, total) ==
  IF fs = << >> THEN total
  ELSE reduceSummary(Tail(fs),
         [calories |-> total.calories + Head(fs).calories,
          protein  |-> total.protein + Head(fs).protein,
          carbs    |-> total.carbs + Head(fs).carbs,
          fat      |-> total.fat + Head(fs).fat])

summarize(log, date) == reduceSummary(foodsOf(log, date), ZeroSummary)

(***************************************************************************)
(* Advice                                                                  *)
(***************************************************************************)
OverGoal   == "You're over your calorie goal. Consider lighter meals for the rest of the day."
UnderGoal  == "You're significantly under your calorie goal. Make sure you're eating enough."
MoreProtein == "Try to include more protein-rich foods in your next meals."
FatReached == "You've reached your fat intake for today. Focus on lean proteins and complex carbs."
OnTrack    == "You're on track with your nutrition goals today!"

\* generateAdvice warning as soon as the goal is exceeded (< 0 for < -200)
generateAdvice_anyExcess(summary, goals) ==
  LET remainingCalories == goals.calories - summary.calories
      a1 == IF remainingCalories < 0 THEN << OverGoal >>
            ELSE IF 2 * remainingCalories > goals.calories THEN << UnderGoal >>
            ELSE << >>
      a2 == IF 10 * summary.protein < 6 * goals.protein
               /\ 2 * summary.calories > goals.calories
            THEN Append(a1, MoreProtein) ELSE a1
      a3 == IF summary.fat > goals.fat THEN Append(a2, FatReached) ELSE a2
  IN  IF Len(a3) > 0 THEN a3 ELSE << OnTrack >>

\* generateAdvice; x > g * 0.5 is 2x > g, x < g * 0.6 is 10x < 6g
generateAdvice(summary, goals) ==
  LET remainingCalories == goals.calories - summary.calories
      a1 == IF remainingCalories < -200 THEN << OverGoal >>
            ELSE IF 2 * remainingCalories > goals.calories THEN << UnderGoal >>
            ELSE << >>
      a2 == IF 10 * summary.protein < 6 * goals.protein
               /\ 2 * summary.calories > goals.calories
            THEN Append(a1, MoreProtein) ELSE a1
      a3 == IF summary.fat > goals.fat THEN Append(a2, FatReached) ELSE a2
  IN  IF Len(a3) > 0 THEN a3 ELSE << OnTrack >>

(***************************************************************************)
(* Percentages shown by a render.  A JavaScript number is kept as          *)
(* [kind, n, d]: the finite value n/d (d > 0), NaN, or -Infinity.          *)
(***************************************************************************)
Finite(n, d) == [kind |-> "finite", n |-> n, d |-> d]
NaN          == [kind |-> "NaN", n |-> 0, d |-> 1]
NegInfinity  == [kind |-> "-Infinity", n |-> 0, d |-> 1]

\* whether a goal that is zero is the double -0: Math.round gives -0 for an
\* argument in [-0.5, 0), which happens for fat when the calorie goal is
\* negative and for carbs when 0.75 * calories - 4 * protein is negative
\* (lines 137-141); calories and protein are never -0 for inputs >= 0
IsNegativeZero(goals, field) ==
  /\ goals[field] = 0
  /\ \/ field = "fat" /\ goals.calories < 0
     \/ field = "carbs" /\ 3 * goals.calories - 16 * goals.protein < 0

\* Math.min(100, (num / den) * 100); negZero tells the sign of a zero den
progressPercentage(num, den, negZero) ==
  IF den # 0
    THEN LET n == IF den > 0 THEN 100 * num ELSE -100 * num
             d == Abs(den)
         IN  IF n > 100 * d THEN Finite(100, 1) ELSE Finite(n, d)
  ELSE IF num = 0 THEN NaN                      \* 0 / 0
  ELSE IF (num > 0) # negZero THEN Finite(100, 1)  \* Math.min(100, Infinity)
  ELSE NegInfinity                              \* Math.min(100, -Infinity)

caloriePercentage(summary, goals) ==
  progressPercentage(summary.calories, goals.calories, FALSE)
proteinPercentage(summary, goals) ==
  progressPercentage(summary.protein, goals.protein, FALSE)
carbsPercentage(summary, goals) ==
  progressPercentage(summary.carbs, goals.carbs, IsNegativeZero(goals, "carbs"))
fatPercentage(summary, goals) ==
  progressPercentage(summary.fat, goals.fat, IsNegativeZero(goals, "fat"))

\* Math.round((grams * kcalPerGram / (goals.calories || 1)) * 100), metrics tab
macroShare(grams, kcalPerGram, goals) ==
  LET den == IF goals.calories = 0 THEN 1 ELSE goals.calories
  IN  IF den > 0 THEN MathRound(100 * grams * kcalPerGram, den)
      ELSE MathRound(-100 * grams * kcalPerGram, -den)

(***************************************************************************)
(* Dates: the Date object in the environment's time zone                   *)
(***************************************************************************)
\* days since 1970-01-01 of a civil date (ECMAScript MakeDay)
DaysFromCivil(y, m, d) ==
  LET y2  == IF m <= 2 THEN y - 1 ELSE y
      era == y2 \div 400
      yoe == y2 - era * 400
      mp  == (m + 9) % 12
      doy == (153 * mp + 2) \div 5 + d - 1
      doe == yoe * 365 + yoe \div 4 - yoe \div 100 + doy
  IN  era * 146097 + doe - 719468

\* civil date of a day number (ECMAScript YearFromTime, MonthFromTime, DateFromTime)
CivilFromDays(z) ==
  LET z2  == z + 719468
      era == z2 \div 146097
      doe == z2 - era * 146097
      yoe == (doe - doe \div 1460 + doe \div 36524 - doe \div 146096) \div 365
      doy == doe - (365 * yoe + yoe \div 4 - yoe \div 100)
      mp  == (5 * doy + 2) \div 153
      d   == doy - (153 * mp + 2) \div 5 + 1
      m   == IF mp < 10 THEN mp + 3 ELSE mp - 9
      y   == yoe + era * 400 + (IF m <= 2 THEN 1 ELSE 0)
  IN  [y |-> y, m |-> m, d |-> d]

\* time zones of the environment: standard offset in hours, and the UTC hours
\* (since the epoch) between which daylight saving time adds one hour
TimeZones ==
  [UTC    |-> [std |-> 0, dstStart |-> 0, dstEnd |-> 0],
   Athens |-> [std |-> 2,
               dstStart |-> DaysFromCivil(2024, 3, 31) * 24 + 1,
               dstEnd   |-> DaysFromCivil(2024, 10, 27) * 24 + 1]]

\* offset of local time from UTC at the UTC hour t
LocalTZA(zone, t) ==
  LET z == TimeZones[zone]
  IN  z.std + (IF z.dstStart <= t /\ t < z.dstEnd THEN 1 ELSE 0)

\* UTC hour of a local wall-clock hour; a skipped or repeated local hour is
\* read with the offset in force before the transition
UTCOfLocal(zone, local) ==
  LET z    == TimeZones[zone]
      uDst == local - z.std - 1
  IN  IF LocalTZA(zone, uDst) = z.std + 1 THEN uDst ELSE local - z.std

\* new Date("YYYY-MM-DD"): midnight UTC of that date, in hours
DateParse(date) == DaysFromCivil(date.y, date.m, date.d) * 24

\* date.toISOString().split('T')[0]: the UTC calendar date
ISODate(t) == CivilFromDays(t \div 24)

\* date.setDate(date.getDate() + offset) applied to new Date(currentDate),
\* then toISOString().split('T')[0]
shiftDate(zone, date, offset) ==
  LET t        == DateParse(date)
      local    == t + LocalTZA(zone, t)
      hour     == local % 24
      civil    == CivilFromDays(local \div 24)
      newDay   == DaysFromCivil(civil.y, civil.m, 1) + (civil.d + offset) - 1
      newLocal == newDay * 24 + hour
  IN  ISODate(UTCOfLocal(zone, newLocal))


(***************************************************************************)
(* localStorage and JSON                                                   *)
(***************************************************************************)
\* JSON.stringify(user): the values in key order
JSONstringifyUser(u) ==
  << u.name, u.age, u.gender, u.weight, u.height, u.activityLevel, u.goal >>

\* JSON.parse of a stored user
JSONparseUser(s) ==
  [name |-> s[1], age |-> s[2], gender |-> s[3], weight |-> s[4],
   height |-> s[5], activityLevel |-> s[6], goal |-> s[7]]

\* JSON.stringify(allFoods)
JSONstringifyFoods(log) ==
  [i \in 1..Len(log) |->
     << log[i].id, log[i].name, log[i].calories, log[i].protein,
        log[i].carbs, log[i].fat, log[i].date >>]

\* JSON.parse of a stored food log
JSONparseFoods(s) ==
  [i \in 1..Len(s) |->
     [id |-> s[i][1], name |-> s[i][2], calories |-> s[i][3], protein |-> s[i][4],
      carbs |-> s[i][5], fat |-> s[i][6], date |-> s[i][7]]]

\* the profile used when localStorage has no user item
DefaultUser ==
  [name |-> "User", age |-> 30, gender |-> "female", weight |-> 70,
   height |-> 170, activityLevel |-> "moderate", goal |-> "maintain"]

\* initial value of the add-food form, also the value it is reset to
EmptyForm == [name |-> "", calories |-> 0, protein |-> 0, carbs |-> 0, fat |-> 0]

\* initial value of the nutritionGoals state
InitialGoals == [calories |-> 2000, protein |-> 50, carbs |-> 250, fat |-> 55]

Tabs == {"home", "add", "metrics", "settings"}

(***************************************************************************)
(* State                                                                   *)
(***************************************************************************)
VARIABLES
  user,            \* useState<User>
  currentDate,     \* useState: selected date, the fields of "YYYY-MM-DD"
  allFoods,        \* useState<Food[]>: the log of all dates, in insertion order
  newFood,         \* useState: the add-food form
  activeTab,       \* useState: the tab shown
  dailySummary,    \* useState: cached totals of the selected date
  nutritionGoals,  \* useState: cached goals of the profile
  localStorage,    \* the two items; << >> is a missing item, << s >> the stored string
  now,             \* the clock read by Date.now()
  timeZone,        \* the time zone of the environment
  today,           \* the UTC date at mount
  changed,         \* state objects replaced since the last commit: effect dependencies
  effects,         \* passive effects of the last commit that have not run yet
  renderReq,       \* "none", or who asked for the next render: "event" or "passive"
  advice           \* the advice list shown by the last commit (<< >> off the home tab)

vars == << user, currentDate, allFoods, newFood, activeTab, dailySummary,
           nutritionGoals, localStorage, now, timeZone, today, changed, effects,
           renderReq, advice >>

\* initialiser of the user state: the stored item if there is one, else the default
InitialUser(storage) ==
  IF storage.user = << >> THEN DefaultUser ELSE JSONparseUser(storage.user[1])

\* initialiser of the allFoods state: the stored item if there is one, else []
InitialFoods(storage) ==
  IF storage.foods = << >> THEN << >> ELSE JSONparseFoods(storage.foods[1])

\* useState initialisers of the component, for a given localStorage and environment
Mount(storage, env) ==
  /\ localStorage = storage
  /\ timeZone = env.zone
  /\ today = env.today
  /\ user = InitialUser(storage)
  /\ currentDate = env.today
  /\ allFoods = InitialFoods(storage)
  /\ newFood = EmptyForm
  /\ activeTab = "home"
  /\ dailySummary = ZeroSummary
  /\ nutritionGoals = InitialGoals
  /\ now = 1
  /\ changed = {"user", "allFoods"}
  /\ effects = {}
  /\ renderReq = "event"
  /\ advice = << >>

(***************************************************************************)
(* Render and passive effects                                              *)
(***************************************************************************)
\* foods is a new array in every render, so the [foods, currentDate]
\* dependencies of the daily-summary effect differ from the previous ones
FoodsDepChanged == TRUE

\* EffectsOf without the effect that saves the food log
EffectsOf_noSaveFoods(ch) ==
  (IF "user" \in ch THEN {"saveUser", "goals"} ELSE {})
  \cup (IF FoodsDepChanged \/ "currentDate" \in ch THEN {"summary"} ELSE {})

\* the effects whose dependencies changed in this render
EffectsOf(ch) ==
  (IF "user" \in ch THEN {"saveUser", "goals"} ELSE {})
  \cup (IF "allFoods" \in ch THEN {"saveFoods"} ELSE {})
  \cup (IF FoodsDepChanged \/ "currentDate" \in ch THEN {"summary"} ELSE {})

\* a render of the component commits: the advice shown is computed from the
\* cached summary and goals, and the effects with changed dependencies are queued
Render ==
  /\ renderReq # "none"
  /\ effects = {}
  /\ effects' = EffectsOf(changed)
  /\ changed' = {}
  /\ renderReq' = "none"
  /\ advice' = IF activeTab = "home"
                 THEN generateAdvice(dailySummary, nutritionGoals) ELSE << >>
  /\ UNCHANGED << user, currentDate, allFoods, newFood, activeTab, dailySummary,
                  nutritionGoals, localStorage, now, timeZone, today >>

\* the queued effects run, in one flush, with the values of the render they belong to
RunEffects ==
  /\ effects # {}
  /\ localStorage' =
       [user  |-> IF "saveUser" \in effects
                    THEN << JSONstringifyUser(user) >> ELSE localStorage.user,
        foods |-> IF "saveFoods" \in effects
                    THEN << JSONstringifyFoods(allFoods) >> ELSE localStorage.foods]
  /\ nutritionGoals' = IF "goals" \in effects
                         THEN calculateNutritionGoals(user) ELSE nutritionGoals
  /\ dailySummary' = IF "summary" \in effects
                       THEN summarize(allFoods, currentDate) ELSE dailySummary
  \* setNutritionGoals / setDailySummary receive a new object: a render is requested
  /\ renderReq' = IF effects \cap {"goals", "summary"} # {} THEN "passive" ELSE renderReq
  /\ effects' = {}
  /\ UNCHANGED << user, currentDate, allFoods, newFood, activeTab, now, timeZone,
                  today, changed, advice >>

(***************************************************************************)
(* Event handlers.  An event is handled once the render its predecessor    *)
(* asked for has committed and that commit's effects have run.             *)
(***************************************************************************)
Interactive == effects = {} /\ renderReq # "event"

\* handleUpdateProfile(field, value), reached from the settings tab
HandleUpdateProfile(field, value) ==
  /\ Interactive
  /\ activeTab = "settings"
  /\ user' = [user EXCEPT ![field] = value]
  /\ changed' = changed \cup {"user"}
  /\ renderReq' = "event"
  /\ UNCHANGED << currentDate, allFoods, newFood, activeTab, dailySummary,
                  nutritionGoals, localStorage, now, timeZone, today, effects, advice >>

\* onChange of an add-food input: setNewFood({ ...newFood, [field]: value })
SetNewFood(field, value) ==
  /\ Interactive
  /\ activeTab = "add"
  /\ newFood' = [newFood EXCEPT ![field] = value]
  /\ renderReq' = "event"
  /\ UNCHANGED << user, currentDate, allFoods, activeTab, dailySummary,
                  nutritionGoals, localStorage, now, timeZone, today, changed,
                  effects, advice >>

\* the guard of handleAddFood: newFood.name && newFood.calories
AddFoodAccepts(form) == form.name # "" /\ form.calories # 0

\* the Food built by handleAddFood; x || 0 is x for every number
FoodItem(form, t, date) ==
  [id |-> ToString(t), name |-> form.name, calories |-> form.calories,
   protein |-> form.protein, carbs |-> form.carbs, fat |-> form.fat, date |-> date]

\* [...allFoods, foodItem]
AddedFoods(log, form, t, date) == Append(log, FoodItem(form, t, date))

\* allFoods.filter(food => food.id !== id)
RemovedFoods(log, id) == SelectSeq(log, LAMBDA food : food.id # id)

\* handleAddFood, the button of the add tab
HandleAddFood ==
  /\ Interactive
  /\ activeTab = "add"
  /\ Len(allFoods) < MaxFoods
  /\ IF AddFoodAccepts(newFood)
       THEN /\ allFoods' = AddedFoods(allFoods, newFood, now, currentDate)
            /\ newFood' = EmptyForm
            /\ activeTab' = "home"
            /\ changed' = changed \cup {"allFoods"}
            /\ renderReq' = "event"
       ELSE UNCHANGED << allFoods, newFood, activeTab, changed, renderReq >>
  /\ UNCHANGED << user, currentDate, dailySummary, nutritionGoals, localStorage,
                  now, timeZone, today, effects, advice >>

\* handleRemoveFood(food.id), the button next to a food of the selected date
HandleRemoveFood(id) ==
  /\ Interactive
  /\ activeTab = "home"
  /\ \E i \in 1..Len(allFoods) : allFoods[i].date = currentDate /\ allFoods[i].id = id
  /\ allFoods' = RemovedFoods(allFoods, id)
  /\ changed' = changed \cup {"allFoods"}
  /\ renderReq' = "event"
  /\ UNCHANGED << user, currentDate, newFood, activeTab, dailySummary,
                  nutritionGoals, localStorage, now, timeZone, today, effects, advice >>

\* changeDate(offset), the two buttons of the home tab
ChangeDate(offset) ==
  LET next == shiftDate(timeZone, currentDate, offset)
      dist == DaysFromCivil(next.y, next.m, next.d)
              - DaysFromCivil(today.y, today.m, today.d)
  IN  /\ Interactive
      /\ activeTab = "home"
      /\ Abs(dist) <= MaxShift
      /\ currentDate' = next
      \* setCurrentDate with an equal string requests no render
      /\ changed' = IF next # currentDate THEN changed \cup {"currentDate"} ELSE changed
      /\ renderReq' = IF next # currentDate THEN "event" ELSE renderReq
      /\ UNCHANGED << user, allFoods, newFood, activeTab, dailySummary,
                      nutritionGoals, localStorage, now, timeZone, today, effects,
                      advice >>

\* setActiveTab(tab): the navigation bar and the buttons that open or close the add tab
SetActiveTab(tab) ==
  /\ Interactive
  /\ activeTab' = tab
  \* setActiveTab with the tab already shown requests no render
  /\ renderReq' = IF tab # activeTab THEN "event" ELSE renderReq
  /\ UNCHANGED << user, currentDate, allFoods, newFood, dailySummary, nutritionGoals,
                  localStorage, now, timeZone, today, changed, effects, advice >>

\* a millisecond passes
Tick ==
  /\ now < MaxTime
  /\ now' = now + 1
  /\ UNCHANGED << user, currentDate, allFoods, newFood, activeTab, dailySummary,
                  nutritionGoals, localStorage, timeZone, today, changed, effects,
                  renderReq, advice >>

\* the page is reloaded: the component is mounted again, its state initialised
\* from what localStorage holds at that moment
Reload ==
  /\ user' = InitialUser(localStorage)
  /\ currentDate' = today
  /\ allFoods' = InitialFoods(localStorage)
  /\ newFood' = EmptyForm
  /\ activeTab' = "home"
  /\ dailySummary' = ZeroSummary
  /\ nutritionGoals' = InitialGoals
  /\ changed' = {"user", "allFoods"}
  /\ effects' = {}
  /\ renderReq' = "event"
  /\ advice' = << >>
  /\ UNCHANGED << localStorage, now, timeZone, today >>


(***************************************************************************)
(* The application: inputs drawn from small sets                           *)
(***************************************************************************)
\* environments the component is mounted in: time zone and UTC date
Environments ==
  { [zone |-> "UTC",    today |-> [y |-> 2024, m |-> 12, d |-> 31]],
    [zone |-> "Athens", today |-> [y |-> 2024, m |-> 3,  d |-> 30]] }

\* a log left in localStorage by an earlier session
StoredFoods(env) ==
  << [id |-> "0", name |-> "Rice", calories |-> 130, protein |-> 3, carbs |-> 28,
      fat |-> 1, date |-> env.today] >>

\* contents of localStorage at mount
Storages(env) ==
  { [user |-> << >>, foods |-> << >>],
    [user |-> << >>, foods |-> << JSONstringifyFoods(StoredFoods(env)) >>] }

\* values typed or selected in the settings tab
ProfileInputs ==
  { << "goal", "lose" >>, << "goal", "maintain" >> }

\* values typed in the add tab
FormInputs ==
  { << "name", "Chicken" >>, << "name", "" >>,
    << "calories", 165 >>, << "calories", 0 >>, << "calories", -5 >> }

\* ids a remove button can carry
Ids == { ToString(t) : t \in 0..MaxTime }

Init == \E env \in Environments : \E storage \in Storages(env) : Mount(storage, env)

Next ==
  \/ Render
  \/ RunEffects
  \/ \E in \in ProfileInputs : HandleUpdateProfile(in[1], in[2])
  \/ \E in \in FormInputs : SetNewFood(in[1], in[2])
  \/ HandleAddFood
  \/ \E id \in Ids : HandleRemoveFood(id)
  \/ \E offset \in {-1, 1} : ChangeDate(offset)
  \/ \E tab \in Tabs : SetActiveTab(tab)
  \/ Tick

Spec == Init /\ [][Next]_vars


(***************************************************************************)
(* The energy model alone: profiles drawn from a larger set                *)
(***************************************************************************)
EmptyStorage == [user |-> << >>, foods |-> << >>]

UTCEnv == [zone |-> "UTC", today |-> [y |-> 2024, m |-> 12, d |-> 31]]

\* values typed or selected in the settings tab
EnergyInputs ==
  { << "weight", w >> : w \in {45, 70} }
  \cup { << "height", h >> : h \in {153, 170, 175} }
  \cup { << "age", a >> : a \in {30, 86, 90} }
  \cup { << "gender", g >> : g \in {"female", "male"} }
  \cup { << "activityLevel", l >> :
           l \in {"sedentary", "light", "moderate", "active", "veryActive"} }
  \cup { << "goal", g >> : g \in {"lose", "maintain", "gain"} }

InitEnergy == Mount(EmptyStorage, UTCEnv)

NextEnergy ==
  \/ Render
  \/ RunEffects
  \/ \E in \in EnergyInputs : HandleUpdateProfile(in[1], in[2])
  \/ \E tab \in {"home", "settings"} : SetActiveTab(tab)

SpecEnergy == InitEnergy /\ [][NextEnergy]_vars

(***************************************************************************)
(* A diary found in localStorage: removals, date changes, profile edits    *)
(***************************************************************************)
\* a log left in localStorage by earlier sessions
DiaryFoods ==
  LET day  == UTCEnv.today
      eve  == [y |-> 2024, m |-> 12, d |-> 30]
      F(id, name, cal, p, c, f, date) ==
        [id |-> id, name |-> name, calories |-> cal, protein |-> p, carbs |-> c,
         fat |-> f, date |-> date]
  IN  << F("11", "Pizza",   1300, 20, 100, 70, day),
         F("12", "Shake",   1200, 70,  50, 10, day),
         F("13", "Pasta",   1300,  5, 200,  5, day),
         F("14", "Butter",   600, 10,   0, 66, day),
         F("15", "Chicken",  165, 31,   0,  4, eve) >>

DiaryIds == { DiaryFoods[i].id : i \in 1..Len(DiaryFoods) }

InitDiary ==
  Mount([user |-> << >>, foods |-> << JSONstringifyFoods(DiaryFoods) >>], UTCEnv)

\* values typed or selected in the settings tab; an emptied number field is 0
DiaryInputs ==
  { << "goal", g >> : g \in {"lose", "maintain", "gain"} }
  \cup { << "weight", w >> : w \in {0, 30, 70} }
  \cup { << "height", h >> : h \in {98, 170} }
  \cup { << "age", a >> : a \in {30, 67} }
  \cup { << "activityLevel", l >> : l \in {"sedentary", "moderate"} }

NextDiary ==
  \/ Render
  \/ RunEffects
  \/ \E id \in DiaryIds : HandleRemoveFood(id)
  \/ \E offset \in {-1, 1} : ChangeDate(offset)
  \/ \E in \in DiaryInputs : HandleUpdateProfile(in[1], in[2])
  \/ \E tab \in {"home", "metrics", "settings"} : SetActiveTab(tab)

SpecDiary == InitDiary /\ [][NextDiary]_vars


(***************************************************************************)
(* Restarts: the page is reloaded at any point of a session                *)
(***************************************************************************)
\* values typed or selected in the settings tab
RestartProfileInputs ==
  { << "goal", "lose" >>, << "goal", "maintain" >>, << "weight", 80 >>,
    << "name", "Ann" >> }

\* values typed in the add tab
RestartInputs == { << "name", "Chicken" >>, << "calories", 165 >> }

InitRestart == Mount(EmptyStorage, UTCEnv)

NextRestart ==
  \/ Render
  \/ RunEffects
  \/ \E in \in RestartProfileInputs : HandleUpdateProfile(in[1], in[2])
  \/ \E in \in RestartInputs : SetNewFood(in[1], in[2])
  \/ HandleAddFood
  \/ \E id \in Ids : HandleRemoveFood(id)
  \/ \E offset \in {-1, 1} : ChangeDate(offset)
  \/ \E tab \in {"home", "add", "settings"} : SetActiveTab(tab)
  \/ Tick
  \/ Reload

SpecRestart == InitRestart /\ [][NextRestart]_vars


(***************************************************************************)
(* Properties                                                              *)
(***************************************************************************)
\* the goals effect has run for the profile now held
GoalsFresh == effects = {} /\ "user" \notin changed

\* the summary effect has run for the log and the date now held
SummaryFresh == effects = {} /\ changed \cap {"allFoods", "currentDate"} = {}

\* C1: in every reachable state, the initial one and the one committed right
\* after an action included, the stored nutritionGoals are the goals of the
\* current profile and the stored dailySummary is the total of the current
\* log on the selected date.
C1_DerivedNeverDiverge ==
  /\ nutritionGoals = calculateNutritionGoals(user)
  /\ dailySummary = summarize(allFoods, currentDate)

\* C2: add-food with an empty name or with calories absent, zero or negative
\* changes neither the log nor the form nor the active tab.
C2_InvalidAddIsNoOp ==
  [][ (HandleAddFood /\ (newFood.name = "" \/ newFood.calories <= 0))
        => UNCHANGED << allFoods, newFood, activeTab >> ]_vars

\* C3: removing the entry just added, by its id, gives back the log as it was
\* before the add; removing an id no entry carries changes nothing; a remove
\* keeps every entry whose id is not the one given.
C3_AddThenRemoveRestores ==
  [][ /\ (HandleAddFood /\ newFood.name # "" /\ newFood.calories > 0)
           => RemovedFoods(allFoods', allFoods'[Len(allFoods')].id) = allFoods
      /\ \A id \in Ids :
           /\ HandleRemoveFood(id) =>
                /\ Len(allFoods')
                     = Cardinality({ i \in 1..Len(allFoods) : allFoods[i].id # id })
                /\ \A i \in 1..Len(allFoods) :
                     allFoods[i].id # id
                       => \E j \in 1..Len(allFoods') : allFoods'[j] = allFoods[i]
           /\ (\A i \in 1..Len(allFoods) : allFoods[i].id # id)
                => RemovedFoods(allFoods, id) = allFoods
    ]_vars

(***************************************************************************)
(* Energy model                                                            *)
(***************************************************************************)
\* k is n/d rounded to the nearest integer, a tie going up: k - 1/2 <= n/d < k + 1/2
IsRound(k, n, d) == d * (2 * k - 1) <= 2 * n /\ 2 * n < d * (2 * k + 1)

\* four times the Mifflin-St Jeor value 10 w + 6.25 h - 5 a - 161 (female) or + 5
MifflinStJeor4(u) ==
  40 * u.weight + 25 * u.height - 20 * u.age
    + (IF u.gender = "female" THEN -644 ELSE 20)

\* C4: calculateBMR is 10*weight + 6.25*height - 5*age - 161 for a female
\* profile and 10*weight + 6.25*height - 5*age + 5 for any other, rounded to
\* the nearest integer.
C4_BMRFormula == IsRound(calculateBMR(user), MifflinStJeor4(user), 4)

\* the goals effect has run for a female profile whose Mifflin-St Jeor value
\* ends in .5 and for which rounding up decides the calorie goal
C4_Witness ==
  /\ GoalsFresh
  /\ user.gender = "female"
  /\ MifflinStJeor4(user) % 4 = 2
  /\ nutritionGoals.calories = calculateCalorieGoal(user)

\* the profile of the worked example
IsExampleProfile(u) ==
  u.gender = "female" /\ u.weight = 70 /\ u.height = 170 /\ u.age = 30

\* C5 as stated: for female, 70 kg, 170 cm, 30 years the BMR is 1498, and
\* with activity level moderate the TDEE is 2322, which is the calorie goal
\* for goal maintain.
C5_Example1498 ==
  IsExampleProfile(user) =>
    /\ calculateBMR(user) = 1498
    /\ user.activityLevel = "moderate" =>
         /\ calculateTDEE(user) = 2322
         /\ user.goal = "maintain" => calculateCalorieGoal(user) = 2322

\* C5 amended: for female, 70 kg, 170 cm, 30 years the BMR is 1452
\* (round(1451.5)), and with activity level moderate the TDEE is 2251
\* (round(1452 * 1.55)), which is the calorie goal for goal maintain.
C5_Example1452 ==
  IsExampleProfile(user) =>
    /\ calculateBMR(user) = 1452
    /\ user.activityLevel = "moderate" =>
         /\ calculateTDEE(user) = 2251
         /\ user.goal = "maintain" =>
              /\ calculateCalorieGoal(user) = 2251
              /\ GoalsFresh => nutritionGoals.calories = 2251

\* the goals effect has run for the example profile, moderate and maintain
C5_Witness ==
  /\ GoalsFresh
  /\ IsExampleProfile(user)
  /\ user.activityLevel = "moderate"
  /\ user.goal = "maintain"
  /\ nutritionGoals.calories = 2251

\* the multiplier of an activity level, in thousandths
Multiplier1000(level) ==
  CASE level = "sedentary"  -> 1200
    [] level = "light"      -> 1375
    [] level = "moderate"   -> 1550
    [] level = "active"     -> 1725
    [] level = "veryActive" -> 1900

\* the calorie adjustment of a goal
Adjustment(goal) ==
  CASE goal = "lose" -> -500
    [] goal = "maintain" -> 0
    [] goal = "gain" -> 500

\* C6: the TDEE is the rounded BMR times the multiplier of the activity
\* level (1.2, 1.375, 1.55, 1.725, 1.9), rounded; the calorie goal is the TDEE
\* minus 500 for lose, the TDEE for maintain and the TDEE plus 500 for gain.
C6_TDEEAndCalorieGoal ==
  /\ IsRound(calculateTDEE(user),
             calculateBMR(user) * Multiplier1000(user.activityLevel), 1000)
  /\ calculateCalorieGoal(user) = calculateTDEE(user) + Adjustment(user.goal)
  /\ GoalsFresh =>
       nutritionGoals.calories = calculateTDEE(user) + Adjustment(user.goal)

\* the goals effect has run for a very active profile that wants to lose weight
C6_Witness ==
  /\ GoalsFresh
  /\ user.activityLevel = "veryActive"
  /\ user.goal = "lose"
  /\ nutritionGoals.calories = calculateTDEE(user) - 500

\* protein grams per kg of a goal, in tenths
ProteinPerKg10(goal) ==
  CASE goal = "gain" -> 22
    [] goal = "lose" -> 20
    [] goal = "maintain" -> 16

\* the goals g are the ones the formulas give for profile u: calories is the
\* calorie goal, protein round(weight * p), fat round(0.25 * calories / 9),
\* carbs round((calories - 4 * protein - 0.25 * calories) / 4)
GoalsByFormula(g, u) ==
  /\ g.calories = calculateCalorieGoal(u)
  /\ IsRound(g.protein, u.weight * ProteinPerKg10(u.goal), 10)
  /\ IsRound(g.fat, 25 * g.calories, 900)
  /\ IsRound(g.carbs, 100 * g.calories - 400 * g.protein - 25 * g.calories, 400)

\* C7 as stated: the goals computed for a profile follow the formulas, and the
\* carb target is negative whenever 4 * proteinGoal exceeds 0.75 * calorieGoal.
C7_CarbsNegativeWhenever ==
  GoalsFresh =>
    /\ GoalsByFormula(nutritionGoals, user)
    /\ 16 * nutritionGoals.protein > 3 * nutritionGoals.calories
         => nutritionGoals.carbs < 0

\* C7 amended: the goals computed for a profile follow the formulas, with no
\* clamping; the carb target is never positive when 4 * proteinGoal exceeds
\* 0.75 * calorieGoal, and it is negative whenever 4 * proteinGoal exceeds
\* 0.75 * calorieGoal + 2 (a smaller excess rounds to zero).
C7_CarbsNegativeBeyondHalf ==
  GoalsFresh =>
    /\ GoalsByFormula(nutritionGoals, user)
    /\ 16 * nutritionGoals.protein > 3 * nutritionGoals.calories
         => nutritionGoals.carbs <= 0
    /\ 16 * nutritionGoals.protein > 3 * nutritionGoals.calories + 8
         => nutritionGoals.carbs < 0

\* the goals effect has stored a negative carb target
C7_Witness ==
  /\ GoalsFresh
  /\ 16 * nutritionGoals.protein > 3 * nutritionGoals.calories + 8
  /\ nutritionGoals.carbs < 0
  /\ nutritionGoals = calculateNutritionGoals(user)

(***************************************************************************)
(* Daily summary, advice, date navigation                                  *)
(***************************************************************************)
\* positions of the entries of a log that carry the date
Matching(log, date) == { i \in 1..Len(log) : log[i].date = date }

\* the sum of a field over a set of positions, in no particular order
RECURSIVE SumOver(_, _, _)
SumOver(S, log, field) ==
  IF S = {} THEN 0
  ELSE LET i == CHOOSE j \in S : TRUE
       IN  log[i][field] + SumOver(S \ {i}, log, field)

TotalsOf(log, date) ==
  [calories |-> SumOver(Matching(log, date), log, "calories"),
   protein  |-> SumOver(Matching(log, date), log, "protein"),
   carbs    |-> SumOver(Matching(log, date), log, "carbs"),
   fat      |-> SumOver(Matching(log, date), log, "fat")]

\* the orderings of a log
Reorderings(log) ==
  { [i \in 1..Len(log) |-> log[p[i]]] : p \in Permutations(1..Len(log)) }

Rank(msg) ==
  CASE msg = OverGoal -> 1
    [] msg = UnderGoal -> 2
    [] msg = MoreProtein -> 3
    [] msg = FatReached -> 4
    [] msg = OnTrack -> 5

Advised(msg) == \E i \in 1..Len(advice) : advice[i] = msg

\* the commit shown is the render of the state now held, on the home tab
AdviceShown == renderReq = "none" /\ activeTab = "home"

\* C9: the advice list holds, in this order, the over-goal warning iff
\* goal - intake < -200, otherwise the under-goal warning iff goal - intake
\* > half the goal, the protein suggestion iff protein < 0.6 of its goal and
\* intake > half the calorie goal, the fat suggestion iff fat > its goal; the
\* two calorie warnings never come together; the on-track message is the
\* whole list iff no rule fires; with zero intake and a positive calorie goal
\* the list is the under-goal warning alone.
C9_AdviceRules ==
  AdviceShown =>
    LET s == dailySummary
        g == nutritionGoals
        r == g.calories - s.calories
        over  == r < -200
        under == ~over /\ 2 * r > g.calories
        prot  == 10 * s.protein < 6 * g.protein /\ 2 * s.calories > g.calories
        fat   == s.fat > g.fat
    IN  /\ Len(advice) > 0
        /\ \A i \in 1..Len(advice) :
             advice[i] \in {OverGoal, UnderGoal, MoreProtein, FatReached, OnTrack}
        /\ \A i, j \in 1..Len(advice) : i < j => Rank(advice[i]) < Rank(advice[j])
        /\ Advised(OverGoal) <=> over
        /\ Advised(UnderGoal) <=> under
        /\ Advised(MoreProtein) <=> prot
        /\ Advised(FatReached) <=> fat
        /\ ~(Advised(OverGoal) /\ Advised(UnderGoal))
        /\ Advised(OnTrack) <=> ~(over \/ under \/ prot \/ fat)
        /\ Advised(OnTrack) => advice = << OnTrack >>
        /\ (s = ZeroSummary /\ g.calories > 0) => advice = << UnderGoal >>

\* a commit shows the over-goal warning followed by both suggestions
C9_Witness ==
  /\ AdviceShown
  /\ advice = << OverGoal, MoreProtein, FatReached >>
  /\ nutritionGoals.calories - dailySummary.calories < -200

\* C10: changeDate(1) followed by changeDate(-1) brings the selected date
\* back to where it was, for every selected date.
C10_ForwardBackRoundTrip ==
  shiftDate(timeZone, shiftDate(timeZone, currentDate, 1), -1) = currentDate

(***************************************************************************)
(* Percentages with a zero goal                                            *)
(***************************************************************************)
IsZero(v) == v.kind = "finite" /\ v.n = 0

\* the commit shown is the render of the state now held
CommitCurrent == renderReq = "none"

\* C11: whenever the calorie, protein, carbs or fat goal is zero, the
\* percentage shown that divides by it is 0 (never NaN or infinite): the
\* calorie progress of the home and metrics tabs, the macro progress of the
\* metrics tab and its macro shares of the calorie goal.
C11_ZeroGoalShowsZero ==
  CommitCurrent =>
    LET s == dailySummary
        g == nutritionGoals
    IN  /\ (activeTab \in {"home", "metrics"} /\ g.calories = 0)
             => IsZero(caloriePercentage(s, g))
        /\ activeTab = "metrics" =>
             /\ g.protein = 0 => IsZero(proteinPercentage(s, g))
             /\ g.carbs = 0 => IsZero(carbsPercentage(s, g))
             /\ g.fat = 0 => IsZero(fatPercentage(s, g))
             /\ g.calories = 0 =>
                  /\ macroShare(s.protein, 4, g) = 0
                  /\ macroShare(s.carbs, 4, g) = 0
                  /\ macroShare(s.fat, 9, g) = 0


\* C12: in every reachable food log the ids of the entries are pairwise
\* distinct, whatever the sequence of adds and removes and whatever the time
\* between two adds
C12_IdsPairwiseDistinct ==
  \A i, j \in 1..Len(allFoods) : allFoods[i].id = allFoods[j].id => i = j

\* no effect is queued and no render is requested: the component is at rest
AtRest == effects = {} /\ renderReq = "none"

\* the commit of a render that an effect asked for, no event having replaced a
\* state object since the commit before it
PassiveCommit == renderReq = "passive" /\ changed = {} /\ renderReq' = "none"

\* C13: after the mount and after each user action the chain of renders and
\* effect runs terminates: the render that the effects of a commit asked for
\* queues no effect that schedules a further state update, so that the
\* component is at rest once that render has committed
C13_EffectChainComesToRest ==
  [][PassiveCommit => (effects' \cap {"goals", "summary"} = {} /\ AtRest')]_vars

\* the write that follows the last change of the profile has happened
UserWritten == "user" \notin changed /\ "saveUser" \notin effects

\* the write that follows the last change of the log has happened
FoodsWritten == "allFoods" \notin changed /\ "saveFoods" \notin effects

\* C14: once the render and the effects that follow a profile edit, an add or
\* a remove have run, localStorage holds the complete current profile and the
\* complete current log; a reload at any point after the write loads exactly
\* the profile and the log in memory; a reload that finds no user item loads
\* the default profile, and one that finds no foods item loads an empty log
C14_RestartLoadsWhatWasWritten ==
  [][/\ Interactive =>
          /\ localStorage.user = << JSONstringifyUser(user) >>
          /\ localStorage.foods = << JSONstringifyFoods(allFoods) >>
     /\ Reload =>
          /\ UserWritten => user' = user
          /\ FoodsWritten => allFoods' = allFoods
          /\ localStorage.user = << >> =>
               user' = [name |-> "User", age |-> 30, gender |-> "female",
                        weight |-> 70, height |-> 170,
                        activityLevel |-> "moderate", goal |-> "maintain"]
          /\ localStorage.foods = << >> => allFoods' = << >>]_vars

\* the state a reload leaves after an edited profile and a log of two
\* different dates were written
C14_Witness ==
  /\ changed = {"user", "allFoods"}
  /\ renderReq = "event"
  /\ user.goal = "lose"
  /\ user.name = "Ann"
  /\ localStorage.user = << JSONstringifyUser(user) >>
  /\ Len(allFoods) = 2
  /\ allFoods[1].date # allFoods[2].date
  /\ allFoods[1].date # today

=============================================================================
